---- MODULE Spec2Model ----
(***************************************************************************)
(* Monthly-revenue dashboard: the interactive script (src/app.py) and the  *)
(* batch refresh job (src/fetch_monthly_revenue.py).                       *)
(*                                                                         *)
(* A DataFrame is [columns, rows]; a row carries the four canonical fields *)
(* ticker, name, date, revenue.  Dates are month numbers, revenues are     *)
(* naturals, NaN / NaT is NaN, a missing name is None.  Sheet and sector   *)
(* names are character sequences (tuples of character codes), so that      *)
(* slicing a name is computed and not assumed.                             *)
(***************************************************************************)
EXTENDS Integers, Sequences, FiniteSets, TLC

VARIABLES groups, artifact, pandasPad, now, loadCache, fetchCache, sectorCache, run, batch, kpi

\* groups       the registry file's rows (groups.csv)
\* artifact     the cache workbook on disk (sector_dashboard.xlsx), or no file
\* pandasPad    whether the pandas build's pct_change forward-fills nulls
\* now          the clock, in hours
\* loadCache, fetchCache, sectorCache
\*              the memos of load_excel_dashboard, fetch_monthly_revenue_finmind
\*              and get_sector_data: key -> [value, stored]
\* run          the last run of the script: the sector selected, how
\*              get_sector_data ended, the cache mapping it read, the table it
\*              returned, that table after enrich_kpi, the tickers the Live
\*              Fetcher was invoked for and those that reached the provider
\* batch        the last run of the batch job: how it ended, fetch_all's
\*              sheets, what the provider answered
\* kpi          enrich_kpi applied to a table on its own
\* enrich_kpi's own memo is not a variable: the function is pure, so a stored
\* result equals a recomputed one.
vars == <<groups, artifact, pandasPad, now, loadCache, fetchCache, sectorCache, run, batch, kpi>>

(* ------------------------------ bounds -------------------------------- *)
\* the clock runs to MaxClock in steps of TickHours; the KPI inputs have up to
\* MaxRows rows of one ticker; the batch job runs up to MaxBatchRuns times
MaxClock == 24
TickHours == 6
MaxRows == 14
MaxBatchRuns == 1

(* ------------------------- program constants -------------------------- *)
\* the clock and the three memo windows (ttl = 12*3600, 24*3600 s) are in hours
NaN == -1
None == "None"
SectorTTL == 12
FetchTTL == 24
LoadTTL == 24
YoYPeriods == 12
SheetNameLimit == 31
SPACE == 32
SHEET_NAME_FALLBACK == <<0>>
Canon == {"ticker", "name", "date", "revenue"}

(* ------------------------------ frames -------------------------------- *)
Row(t, n, d, v) == [ticker |-> t, name |-> n, date |-> d, revenue |-> v]

DataFrame(cols, rows) == [columns |-> cols, rows |-> rows]

EmptyCanon == DataFrame(Canon, <<>>)

EmptyMap == [k \in {} |-> EmptyCanon]

Range(s) == {s[i] : i \in DOMAIN s}

RECURSIVE Concat(_)
Concat(frames) ==
  IF frames = <<>> THEN DataFrame({}, <<>>)
  ELSE LET rest == Concat(Tail(frames))
       IN DataFrame(Head(frames).columns \cup rest.columns, Head(frames).rows \o rest.rows)

Query(df, tickers) == DataFrame(df.columns, SelectSeq(df.rows, LAMBDA r : r.ticker \in tickers))

DropNaDate(df) == DataFrame(df.columns, SelectSeq(df.rows, LAMBDA r : r.date # NaN))

\* NaT sorts last (na_position = "last")
DateLess(a, b) == a.date # NaN /\ (b.date = NaN \/ a.date < b.date)

TickerLess(a, b) ==
  \/ a.ticker = "A" /\ b.ticker \in {"B", "C", "Z"}
  \/ a.ticker = "B" /\ b.ticker \in {"C", "Z"}
  \/ a.ticker = "C" /\ b.ticker = "Z"

TickerDateLess(a, b) == TickerLess(a, b) \/ (a.ticker = b.ticker /\ DateLess(a, b))

\* by = <<"date">> or <<"ticker", "date">>
RowLess(by, a, b) == IF by = <<"date">> THEN DateLess(a, b) ELSE TickerDateLess(a, b)

RECURSIVE Insert(_, _, _)
Insert(r, sorted, by) ==
  IF sorted = <<>> THEN <<r>>
  ELSE IF RowLess(by, r, Head(sorted)) THEN <<r>> \o sorted
  ELSE <<Head(sorted)>> \o Insert(r, Tail(sorted), by)

RECURSIVE SortRows(_, _)
SortRows(rows, by) ==
  IF rows = <<>> THEN <<>>
  ELSE Insert(rows[Len(rows)], SortRows(SubSeq(rows, 1, Len(rows) - 1), by), by)

sort_values(df, by) == DataFrame(df.columns, SortRows(df.rows, by))

(* ----------------------------- registry ------------------------------- *)
Entry(t, n, s) == [ticker |-> t, name |-> n, sector |-> s]

RECURSIVE Unique(_)
Unique(s) ==
  IF s = <<>> THEN <<>>
  ELSE LET init == Unique(SubSeq(s, 1, Len(s) - 1))
       IN IF s[Len(s)] \in Range(init) THEN init ELSE Append(init, s[Len(s)])

\* groups.query("sector == @sector")["ticker"].unique().tolist()
SectorTickers(g, sector) ==
  LET sel == SelectSeq(g, LAMBDA e : e.sector = sector)
  IN Unique([i \in DOMAIN sel |-> sel[i].ticker])

\* set_index("ticker")["name"].to_dict(): the last row of a ticker wins;
\* Series.map leaves a ticker the dict does not hold at NaN
NameMap(g, t) ==
  LET sel == SelectSeq(g, LAMBDA e : e.ticker = t)
  IN IF sel = <<>> THEN None ELSE sel[Len(sel)].name

RECURSIVE LStrip(_)
LStrip(s) == IF s # <<>> /\ Head(s) = SPACE THEN LStrip(Tail(s)) ELSE s

RECURSIVE RStrip(_)
RStrip(s) == IF s # <<>> /\ s[Len(s)] = SPACE THEN RStrip(SubSeq(s, 1, Len(s) - 1)) ELSE s

Strip(s) == RStrip(LStrip(s))

\* the registry as the dashboard holds it: sector names trimmed.  Tickers and
\* names are atoms here and taken as already trimmed in the file.
load_groups(csv) == [i \in DOMAIN csv |-> Entry(csv[i].ticker, csv[i].name, Strip(csv[i].sector))]

(* ------------------------ memoisation (st.cache_data) ----------------- *)
Returned(v) == [raised |-> FALSE, value |-> v]

Raised == [raised |-> TRUE, value |-> EmptyCanon]

MemoEntry(v) == [value |-> v, stored |-> now]

\* an entry is served while it is younger than its ttl
Fresh(cache, key, ttl) == key \in DOMAIN cache /\ now - cache[key].stored < ttl

Store(cache, key, v) == (key :> MemoEntry(v)) @@ cache

(* ------------------------------ provider ------------------------------ *)
\* What dl.taiwan_stock_month_revenue may answer for stock_id t: a raise
\* ("fault"), no rows, or rows for the ticker asked for.  A raw row carries
\* its values under the canonical field names; raw.columns says which
\* provider columns the answer really has.
Raw(kind, t) ==
  CASE kind = "fault" ->
         [fault |-> TRUE, columns |-> {}, rows |-> <<>>]
    [] kind = "empty" ->
         [fault |-> FALSE, columns |-> {"stock_id", "date", "revenue"}, rows |-> <<>>]
    [] kind = "bare" ->
         [fault |-> FALSE, columns |-> {"stock_id", "date"},
          rows |-> <<Row(t, None, 1, NaN)>>]
    [] kind = "noname" ->
         [fault |-> FALSE, columns |-> {"stock_id", "date", "Revenue"},
          rows |-> <<Row(t, None, 1, 5)>>]
    [] kind = "partial" ->
         [fault |-> FALSE, columns |-> {"stock_id", "stock_name", "date", "revenue"},
          rows |-> <<Row(t, "api", 2, 7), Row(t, None, 1, 5), Row(t, None, 1, 5)>>]
    [] kind = "nat" ->
         [fault |-> FALSE, columns |-> {"stock_id", "stock_name", "date", "Revenue"},
          rows |-> <<Row(t, "api", NaN, 5), Row(t, "api", 3, 0)>>]
    [] kind = "nokey" ->
         [fault |-> FALSE, columns |-> {"date", "revenue"},
          rows |-> <<Row(None, None, 1, 5)>>]

ProviderKinds == {"fault", "empty", "bare", "partial", "nat", "nokey"}

MemoKinds == {"fault", "noname", "partial"}

Rename(c) ==
  CASE c = "stock_id" -> "ticker"
    [] c = "Revenue" -> "revenue"
    [] c = "stock_name" -> "name"
    [] OTHER -> c

(* ---------------------------- Live Fetcher ---------------------------- *)
\* out["name"] = out["ticker"].map(name_map) when the name column is absent or all null
BackfillName(cols, rows, g) ==
  LET fill == "name" \notin cols \/ \A i \in DOMAIN rows : rows[i].name = None
  IN [i \in DOMAIN rows |->
        Row(rows[i].ticker,
            IF fill THEN NameMap(g, rows[i].ticker) ELSE rows[i].name,
            rows[i].date,
            IF "revenue" \in cols THEN rows[i].revenue ELSE NaN)]

\* the body of fetch_monthly_revenue_finmind for one provider answer
fetch_monthly_revenue_finmind(raw, g) ==
  IF raw.fault THEN Raised
  ELSE IF raw.rows = <<>> THEN Returned(EmptyCanon)
  ELSE LET cols == {Rename(c) : c \in raw.columns}
       IN IF "ticker" \notin cols \/ "date" \notin cols THEN Raised
          ELSE Returned(sort_values(DataFrame(Canon, BackfillName(cols, raw.rows, g)), <<"date">>))

(* ------------------------ Sector Data Resolver ------------------------ *)
CachedFrames(sector, tset, excel_sheets) ==
  IF sector \in DOMAIN excel_sheets
    THEN <<Query(excel_sheets[sector], tset)>>
  ELSE IF SHEET_NAME_FALLBACK \in DOMAIN excel_sheets
    THEN <<Query(excel_sheets[SHEET_NAME_FALLBACK], tset)>>
  ELSE <<>>

Have(frames) == IF frames = <<>> THEN {} ELSE {r.ticker : r \in Range(Concat(frames).rows)}

Need(tickers, have) == SelectSeq(tickers, LAMBDA t : t \notin have)

\* for t in need: frames.append(fetch_monthly_revenue_finmind(t)), the call
\* going through its own 24 h memo; a raise leaves the loop and the function
RECURSIVE FetchLoop(_, _, _, _)
FetchLoop(need, resp, g, st) ==
  IF need = <<>> \/ st.raised THEN st
  ELSE LET t == Head(need)
           hit == Fresh(st.cache, t, FetchTTL)
           res == IF hit THEN Returned(st.cache[t].value)
                  ELSE fetch_monthly_revenue_finmind(Raw(resp[t], t), g)
       IN FetchLoop(Tail(need), resp, g,
            [frames  |-> IF res.raised THEN st.frames ELSE Append(st.frames, res.value),
             cache   |-> IF hit \/ res.raised THEN st.cache ELSE Store(st.cache, t, res.value),
             invoked |-> Append(st.invoked, t),
             calls   |-> IF hit THEN st.calls ELSE Append(st.calls, t),
             raised  |-> res.raised])

\* Finish without dropna(subset=["date"]): the rows with a null date stay
FinishKeepsNaT(frames) ==
  IF frames = <<>> THEN EmptyCanon
  ELSE sort_values(Concat(frames), <<"ticker", "date">>)

\* Finish returning pd.DataFrame() for no frames: an empty table without columns
FinishBare(frames) ==
  IF frames = <<>> THEN DataFrame({}, <<>>)
  ELSE sort_values(DropNaDate(Concat(frames)), <<"ticker", "date">>)

Finish(frames) ==
  IF frames = <<>> THEN EmptyCanon
  ELSE sort_values(DropNaDate(Concat(frames)), <<"ticker", "date">>)

\* the body of get_sector_data; resp is what the provider answers per ticker
get_sector_data(sector, g, excel_sheets, resp, fcache) ==
  LET tickers == SectorTickers(g, sector)
      frames0 == CachedFrames(sector, Range(tickers), excel_sheets)
      st == FetchLoop(Need(tickers, Have(frames0)), resp, g,
              [frames |-> frames0, cache |-> fcache, invoked |-> <<>>,
               calls |-> <<>>, raised |-> FALSE])
  IN [raised |-> st.raised, value |-> Finish(st.frames), cache |-> st.cache,
      invoked |-> st.invoked, calls |-> st.calls]

(* ----------------------------- KPI Enricher --------------------------- *)
PNaN == [kind |-> "nan", num |-> 0, den |-> 0]

PInf == [kind |-> "inf", num |-> 0, den |-> 0]

\* cur / prev - 1 in floating point: NaN propagates, x / 0 is inf, 0 / 0 is NaN
Pct(cur, prev) ==
  IF cur = NaN \/ prev = NaN THEN PNaN
  ELSE IF prev = 0 THEN (IF cur = 0 THEN PNaN ELSE PInf)
  ELSE [kind |-> "ratio", num |-> cur, den |-> prev]

RECURSIVE FFill(_)
FFill(s) ==
  IF s = <<>> THEN <<>>
  ELSE LET init == FFill(SubSeq(s, 1, Len(s) - 1))
           x == s[Len(s)]
       IN Append(init, IF x = NaN /\ init # <<>> THEN init[Len(init)] ELSE x)

\* Series.pct_change(periods) of one group; pad: the pandas build forward-fills
\* NaN first (fill_method = "pad", the default before pandas 3)
pct_change(series, periods, pad) ==
  LET f == IF pad THEN FFill(series) ELSE series
  IN [i \in DOMAIN series |-> IF i <= periods THEN PNaN ELSE Pct(f[i], f[i - periods])]

GroupRevenue(rows, t) ==
  LET sel == SelectSeq(rows, LAMBDA r : r.ticker = t)
  IN [i \in DOMAIN sel |-> sel[i].revenue]

PosInGroup(rows, i) == Cardinality({j \in 1..i : rows[j].ticker = rows[i].ticker})

enrich_kpi(df, pad) ==
  IF df.rows = <<>> THEN df
  ELSE LET s == SortRows(df.rows, <<"ticker", "date">>)
           col(i, k) == pct_change(GroupRevenue(s, s[i].ticker), k, pad)[PosInGroup(s, i)]
       IN DataFrame(df.columns \cup {"revenue_mom", "revenue_yoy"},
            [i \in DOMAIN s |->
               [ticker |-> s[i].ticker, name |-> s[i].name, date |-> s[i].date,
                revenue |-> s[i].revenue,
                revenue_mom |-> col(i, 1), revenue_yoy |-> col(i, YoYPeriods)]])

(* ----------------------------- Cache Reader --------------------------- *)
DATA_XLSX == "sector_dashboard.xlsx"

NoFile == [exists |-> FALSE, sheets |-> EmptyMap]

Workbook(sheets) == [exists |-> TRUE, sheets |-> sheets]

\* a sheet is kept when its columns include the four canonical ones
load_excel_dashboard(art) ==
  IF ~art.exists THEN EmptyMap
  ELSE [n \in {m \in DOMAIN art.sheets : Canon \subseteq art.sheets[m].columns} |-> art.sheets[n]]

(* ------------------------- the registries and files ------------------- *)
S1 == <<1>>
S2 == <<2>>
S3 == <<3>>

Sectors == {S1, S2, S3}

G1 == <<Entry("A", "nA", S1), Entry("B", "nB", S1)>>

G2 == <<Entry("A", "nA", S1), Entry("A", "nA2", S1), Entry("B", "nB", S1), Entry("C", "nC", S2)>>

Registries == {G1, G2}

SheetA == DataFrame(Canon, <<Row("A", "xA", 1, 5)>>)

SheetRepeated == DataFrame(Canon, <<Row("A", "xA", 1, 5), Row("A", "xA", 1, 5)>>)

SheetUnsorted == DataFrame(Canon, <<Row("A", "xA", 2, 7), Row("A", None, 1, 5)>>)

SheetNaT == DataFrame(Canon, <<Row("B", "xB", 1, 5), Row("A", "xA", NaN, 5), Row("A", "xA", 1, 0)>>)

SheetOther == DataFrame(Canon, <<Row("Z", "xZ", 1, 5)>>)

SheetNoColumns == DataFrame({"ticker", "date"}, <<Row("A", None, 1, NaN)>>)

SheetExtra == DataFrame(Canon \cup {"note"}, <<Row("A", "xA", 1, 5)>>)

Artifacts ==
  { NoFile,
    Workbook(S1 :> SheetA),
    Workbook(S1 :> SheetRepeated),
    Workbook(S1 :> SheetUnsorted),
    Workbook(S1 :> SheetNaT),
    Workbook(SHEET_NAME_FALLBACK :> SheetA),
    Workbook((S1 :> SheetOther) @@ (SHEET_NAME_FALLBACK :> SheetA)),
    Workbook((S1 :> SheetNoColumns) @@ (SHEET_NAME_FALLBACK :> SheetUnsorted)),
    Workbook((S3 :> SheetExtra) @@ (S2 :> SheetA)) }

(* --------------------------- the script run --------------------------- *)
NoRun ==
  [sector |-> <<>>, outcome |-> "none", excel_sheets |-> EmptyMap, sector_df |-> EmptyCanon,
   enriched |-> EmptyCanon, invoked |-> <<>>, calls |-> <<>>]

NoBatch == [status |-> "idle", sheets |-> EmptyMap, answers |-> EmptyMap, runs |-> 0]

NoKpi == [done |-> FALSE, input |-> EmptyCanon, output |-> EmptyCanon]

\* load_excel_dashboard(DATA_XLSX) through its 24 h memo
CurrentSheets ==
  IF Fresh(loadCache, DATA_XLSX, LoadTTL) THEN loadCache[DATA_XLSX].value
  ELSE load_excel_dashboard(artifact)

\* get_sector_data's memo key: its three arguments
groups_df == load_groups(groups)

SectorKey(sector) == <<sector, groups_df, CurrentSheets>>

SectorHit(sector) == Fresh(sectorCache, SectorKey(sector), SectorTTL)

\* the tickers whose fetch reaches the provider in a run for this sector
Consulted(sector) ==
  IF SectorHit(sector) THEN {}
  ELSE LET tickers == SectorTickers(groups_df, sector)
           have == Have(CachedFrames(sector, Range(tickers), CurrentSheets))
       IN {t \in Range(tickers) : t \notin have /\ ~Fresh(fetchCache, t, FetchTTL)}

Answers(sector, kinds) == [Consulted(sector) -> kinds]

\* One run of the script for the selected sector (src/app.py lines 131-140):
\* the cache mapping through load_excel_dashboard's memo, the sector table
\* through get_sector_data's memo, then enrich_kpi.  A raise ends the run
\* and nothing is stored for the call that raised.
Request(sector, resp) ==
  LET excel_sheets == CurrentSheets
      key == SectorKey(sector)
      hit == SectorHit(sector)
      res == get_sector_data(sector, groups_df, excel_sheets, resp, fetchCache)
      raised == ~hit /\ res.raised
      sector_df == IF hit THEN sectorCache[key].value
                   ELSE IF raised THEN EmptyCanon ELSE res.value
  IN /\ loadCache' = IF Fresh(loadCache, DATA_XLSX, LoadTTL) THEN loadCache
                     ELSE Store(loadCache, DATA_XLSX, excel_sheets)
     /\ fetchCache' = IF hit THEN fetchCache ELSE res.cache
     /\ sectorCache' = IF hit \/ raised THEN sectorCache ELSE Store(sectorCache, key, res.value)
     /\ run' = [sector |-> sector,
                outcome |-> IF hit THEN "hit" ELSE IF raised THEN "raised" ELSE "computed",
                excel_sheets |-> excel_sheets,
                sector_df |-> sector_df,
                enriched |-> enrich_kpi(sector_df, pandasPad),
                invoked |-> IF hit THEN <<>> ELSE res.invoked,
                calls |-> IF hit THEN <<>> ELSE res.calls]
     /\ UNCHANGED <<groups, artifact, pandasPad, now, batch, kpi>>

Tick ==
  /\ now + TickHours <= MaxClock
  /\ now' = now + TickHours
  /\ UNCHANGED <<groups, artifact, pandasPad, loadCache, fetchCache, sectorCache, run, batch, kpi>>

(* ---------- the session: any registry, any cache artifact ------------- *)
Init ==
  /\ groups \in Registries
  /\ artifact \in Artifacts
  /\ pandasPad \in BOOLEAN
  /\ now = 0
  /\ loadCache = EmptyMap
  /\ fetchCache = EmptyMap
  /\ sectorCache = EmptyMap
  /\ run = NoRun
  /\ batch = NoBatch
  /\ kpi = NoKpi

Next == \E sector \in Sectors : \E resp \in Answers(sector, ProviderKinds) : Request(sector, resp)

Spec == Init /\ [][Next]_vars

(* ---------- the session over time: the memo windows ------------------- *)
InitMemo ==
  /\ groups = G1
  /\ artifact \in {NoFile, Workbook(S1 :> SheetA)}
  /\ pandasPad \in BOOLEAN
  /\ now = 0
  /\ loadCache = EmptyMap
  /\ fetchCache = EmptyMap
  /\ sectorCache = EmptyMap
  /\ run = NoRun
  /\ batch = NoBatch
  /\ kpi = NoKpi

Ask == \E sector \in {S1, S3} : \E resp \in Answers(sector, MemoKinds) : Request(sector, resp)

NextMemo == Ask \/ Tick

SpecMemo == InitMemo /\ [][NextMemo]_vars

(* --------------------------- Batch Refresh ---------------------------- *)
RECURSIVE LexLess(_, _)
LexLess(a, b) ==
  IF a = <<>> THEN b # <<>>
  ELSE IF b = <<>> THEN FALSE
  ELSE IF Head(a) # Head(b) THEN Head(a) < Head(b)
  ELSE LexLess(Tail(a), Tail(b))

\* sorted(df["sector"].unique())
RECURSIVE Sorted(_)
Sorted(names) ==
  IF names = {} THEN <<>>
  ELSE LET m == CHOOSE x \in names : \A y \in names \ {x} : LexLess(x, y)
       IN <<m>> \o Sorted(names \ {m})

\* sheet[:31]
Truncate(name) ==
  SubSeq(name, 1, IF Len(name) < SheetNameLimit THEN Len(name) ELSE SheetNameLimit)

\* one ticker of fetch_all's inner loop; an empty answer is skipped by the
\* caller, sub[[...]] raises when a canonical column is missing
BatchFetch(raw, g) ==
  IF raw.fault THEN Raised
  ELSE IF raw.rows = <<>> THEN Returned(EmptyCanon)
  ELSE LET cols == {Rename(c) : c \in raw.columns}
       IN IF "ticker" \notin cols \/ ~({"date", "revenue"} \subseteq cols) THEN Raised
          ELSE Returned(DataFrame(Canon, BackfillName(cols, raw.rows, g)))

RECURSIVE SectorFrames(_, _, _, _)
SectorFrames(tickers, resp, g, acc) ==
  IF tickers = <<>> \/ acc.raised THEN acc
  ELSE LET res == BatchFetch(Raw(resp[Head(tickers)], Head(tickers)), g)
       IN SectorFrames(Tail(tickers), resp, g,
            [raised |-> res.raised,
             frames |-> IF res.raised \/ res.value.rows = <<>> THEN acc.frames
                        ELSE Append(acc.frames, res.value)])

RECURSIVE FetchAllLoop(_, _, _, _)
FetchAllLoop(sectors, resp, g, acc) ==
  IF sectors = <<>> \/ acc.raised THEN acc
  ELSE LET sector == Head(sectors)
           sf == SectorFrames(SectorTickers(g, sector), resp, g,
                   [raised |-> FALSE, frames |-> <<>>])
           keep == ~sf.raised /\ sf.frames # <<>>
       IN FetchAllLoop(Tail(sectors), resp, g,
            [raised |-> sf.raised,
             sheets |-> IF keep
                          THEN (sector :> sort_values(Concat(sf.frames), <<"ticker", "date">>))
                               @@ acc.sheets
                        ELSE acc.sheets,
             order  |-> IF keep THEN Append(acc.order, sector) ELSE acc.order])

\* fetch_all reads the registry file itself and does not trim the sector names
fetch_all(csv, resp) ==
  FetchAllLoop(Sorted({csv[i].sector : i \in DOMAIN csv}), resp, csv,
    [raised |-> FALSE, sheets |-> EmptyMap, order |-> <<>>])

\* writing a frame under a title the new workbook already holds writes its
\* cells over that sheet's cells
Overlay(old, new) ==
  DataFrame(new.columns, new.rows \o SubSeq(old.rows, Len(new.rows) + 1, Len(old.rows)))

RECURSIVE WriteSheets(_, _, _)
WriteSheets(order, sheets, book) ==
  IF order = <<>> THEN book
  ELSE LET title == Truncate(Head(order))
           df == sheets[Head(order)]
       IN WriteSheets(Tail(order), sheets,
            (title :> (IF title \in DOMAIN book THEN Overlay(book[title], df) ELSE df)) @@ book)

AllTickers(csv) == {csv[i].ticker : i \in DOMAIN csv}

BatchKinds == {"fault", "empty", "noname"}

\* one run of the batch job (src/fetch_monthly_revenue.py lines 61-68)
BatchRun(resp) ==
  LET res == fetch_all(groups, resp)
      status == IF res.raised THEN "raised"
                ELSE IF DOMAIN res.sheets = {} THEN "exit"
                ELSE "written"
  IN /\ batch.runs < MaxBatchRuns
     /\ batch' = [status |-> status, sheets |-> res.sheets, answers |-> resp,
                  runs |-> batch.runs + 1]
     /\ artifact' = IF status = "written"
                      THEN Workbook(WriteSheets(res.order, res.sheets, EmptyMap))
                    ELSE artifact
     /\ UNCHANGED <<groups, pandasPad, now, loadCache, fetchCache, sectorCache, run, kpi>>

Pad == [i \in 1..SheetNameLimit |-> 1]

LongA == Pad \o <<1>>

LongB == Pad \o <<2>>

Spaced == <<1, SPACE>>

BatchRegistries ==
  { <<Entry("A", "nA", S1), Entry("B", "nB", S1), Entry("C", "nC", S2)>>,
    <<Entry("A", "nA", Pad), Entry("B", "nB", S2)>>,
    <<Entry("A", "nA", LongA), Entry("B", "nB", S2)>>,
    <<Entry("A", "nA", LongA), Entry("B", "nB", LongB)>>,
    <<Entry("A", "nA", Spaced), Entry("B", "nB", S2)>> }

InitBatch ==
  /\ groups \in BatchRegistries
  /\ artifact = NoFile
  /\ pandasPad \in BOOLEAN
  /\ now = 0
  /\ loadCache = EmptyMap
  /\ fetchCache = EmptyMap
  /\ sectorCache = EmptyMap
  /\ run = NoRun
  /\ batch = NoBatch
  /\ kpi = NoKpi

Refresh == \E resp \in [AllTickers(groups) -> BatchKinds] : BatchRun(resp)

\* the selector offers the registry's sectors
Select ==
  \E sector \in {groups_df[i].sector : i \in DOMAIN groups_df} :
    \E resp \in Answers(sector, MemoKinds) : Request(sector, resp)

NextBatch == Refresh \/ Select

SpecBatch == InitBatch /\ [][NextBatch]_vars

(* ------------------- the KPI Enricher on its own ---------------------- *)
Reverse(s) == [i \in DOMAIN s |-> s[Len(s) + 1 - i]]

\* n rows of ticker A at months 1..n, the revenue at row p replaced by v,
\* followed by m rows of ticker B
KpiRows(n, p, v, m) ==
  [i \in 1..n |-> Row("A", "nA", i, IF i = p THEN v ELSE 2 + (i % 3))]
    \o [j \in 1..m |-> Row("B", "nB", j, 4 + j)]

KpiInputs ==
  { DataFrame(Canon, IF rev THEN Reverse(KpiRows(n, p, v, m)) ELSE KpiRows(n, p, v, m)) :
      <<n, p, v, m, rev>> \in
        {x \in (0..MaxRows) \X (0..2) \X {NaN, 0} \X (0..2) \X BOOLEAN : x[2] <= x[1]} }

InitKpi ==
  /\ groups = G1
  /\ artifact = NoFile
  /\ pandasPad \in BOOLEAN
  /\ now = 0
  /\ loadCache = EmptyMap
  /\ fetchCache = EmptyMap
  /\ sectorCache = EmptyMap
  /\ run = NoRun
  /\ batch = NoBatch
  /\ kpi \in {[done |-> FALSE, input |-> df, output |-> EmptyCanon] : df \in KpiInputs}

Enrich ==
  /\ ~kpi.done
  /\ kpi' = [done |-> TRUE, input |-> kpi.input, output |-> enrich_kpi(kpi.input, pandasPad)]
  /\ UNCHANGED <<groups, artifact, pandasPad, now, loadCache, fetchCache, sectorCache, run, batch>>

NextKpi == Enrich

SpecKpi == InitKpi /\ [][NextKpi]_vars

(* ============================== claims ================================ *)
Returns == run.outcome \in {"computed", "hit"}

RegistryTickers == {groups_df[i].ticker : i \in DOMAIN groups_df}

\* the cached contribution of the last run, read off the cache mapping it used
Contribution ==
  IF run.sector \in DOMAIN run.excel_sheets THEN run.excel_sheets[run.sector].rows
  ELSE IF SHEET_NAME_FALLBACK \in DOMAIN run.excel_sheets
    THEN run.excel_sheets[SHEET_NAME_FALLBACK].rows
  ELSE <<>>

Uncovered ==
  {t \in Range(SectorTickers(groups_df, run.sector)) :
     \A i \in DOMAIN Contribution : Contribution[i].ticker # t}

\* C1: the table get_sector_data returns holds at most one row per
\* (ticker, date) pair.
C1_OneRowPerTickerDate ==
  Returns =>
    \A i, j \in DOMAIN run.sector_df.rows :
      i # j => ~(/\ run.sector_df.rows[i].ticker = run.sector_df.rows[j].ticker
                 /\ run.sector_df.rows[i].date = run.sector_df.rows[j].date)

\* C2: a provider call that fails for one ticker does not end the resolution
\* in a thrown fault; the resolution completes.
C2_FaultContained == run.outcome # "raised"

\* C3: in one resolution the Live Fetcher is invoked exactly once for each
\* registry ticker of the sector with no row in the cached contribution and
\* for no other ticker, and every output row's ticker is either a covered
\* ticker or a fetched one, never both.
C3_InvokedOncePerUncovered ==
  run.outcome \in {"computed", "raised"} =>
    /\ Range(run.invoked) = Uncovered
    /\ Len(run.invoked) = Cardinality(Uncovered)
    /\ \A i \in DOMAIN run.sector_df.rows :
         (run.sector_df.rows[i].ticker \in Uncovered)
           # (\E k \in DOMAIN Contribution : Contribution[k].ticker = run.sector_df.rows[i].ticker)

\* C3, the part that holds: a resolution never invokes the Live Fetcher twice
\* for a ticker nor for a covered ticker, and one that returns has invoked it
\* for every uncovered ticker.
C3_WhenReturned ==
  run.outcome \in {"computed", "raised"} =>
    /\ Range(run.invoked) \subseteq Uncovered
    /\ Len(run.invoked) = Cardinality(Range(run.invoked))
    /\ run.outcome = "computed" => Range(run.invoked) = Uncovered

\* C4: every row handed to the presentation layer whose ticker is in the
\* registry has a name.
C4_NameFilled ==
  Returns =>
    \A i \in DOMAIN run.enriched.rows :
      run.enriched.rows[i].ticker \in RegistryTickers => run.enriched.rows[i].name # None

\* the value the claim gives a derived column at position pos of a ticker's
\* date-sorted revenue sequence, k positions back
Claimed(series, pos, k) ==
  IF pos <= k THEN PNaN
  ELSE IF series[pos - k] \in {0, NaN} THEN PNaN
  ELSE IF series[pos] = NaN THEN PNaN
  ELSE [kind |-> "ratio", num |-> series[pos], den |-> series[pos - k]]

\* C5: revenue_mom is null on a ticker's first row and revenue_yoy on its
\* first 12 rows, both are null when the reference row's revenue is zero or
\* null, and otherwise they are revenue[t] / revenue[t-k] - 1 within the ticker.
C5_PctChange ==
  (kpi.done /\ kpi.input.rows # <<>>) =>
    \A i \in DOMAIN kpi.output.rows :
      LET rows == kpi.output.rows
          series == GroupRevenue(rows, rows[i].ticker)
          pos == PosInGroup(rows, i)
      IN /\ rows[i].revenue_mom = Claimed(series, pos, 1)
         /\ rows[i].revenue_yoy = Claimed(series, pos, 12)

RequestStep ==
  run' # run \/ sectorCache' # sectorCache \/ fetchCache' # fetchCache \/ loadCache' # loadCache

KeyOfStep == <<run'.sector, groups_df, run'.excel_sheets>>

\* C6: a sector requested again less than 12 hours after it was resolved with
\* the same snapshots gets the stored table and no provider call is made; a
\* request after the 12 hours recomputes the table and overwrites the entry.
C6_Memoized ==
  [][RequestStep /\ KeyOfStep \in DOMAIN sectorCache =>
       IF now - sectorCache[KeyOfStep].stored < 12
         THEN /\ run'.sector_df = sectorCache[KeyOfStep].value
              /\ run'.calls = <<>>
              /\ fetchCache' = fetchCache
              /\ sectorCache' = sectorCache
         ELSE /\ run'.outcome # "hit"
              /\ sectorCache'[KeyOfStep] = [value |-> run'.sector_df, stored |-> now]]_vars

\* C6, the part that holds: within the 12 hours the stored table is served
\* and the provider is not called; after them the body runs again, and when
\* it returns its table replaces the entry.
C6_WhenReturned ==
  [][RequestStep /\ KeyOfStep \in DOMAIN sectorCache =>
       IF now - sectorCache[KeyOfStep].stored < 12
         THEN /\ run'.outcome = "hit"
              /\ run'.sector_df = sectorCache[KeyOfStep].value
              /\ run'.calls = <<>>
              /\ fetchCache' = fetchCache
              /\ sectorCache' = sectorCache
         ELSE /\ run'.outcome # "hit"
              /\ run'.outcome = "computed" =>
                   sectorCache'[KeyOfStep] = [value |-> run'.sector_df, stored |-> now]]_vars

\* the provider answered the batch run with at least one row for ticker t
BatchGotRows(t) ==
  /\ t \in DOMAIN batch.answers
  /\ ~Raw(batch.answers[t], t).fault
  /\ Raw(batch.answers[t], t).rows # <<>>

Produced ==
  {sector \in {groups[i].sector : i \in DOMAIN groups} :
     \E t \in Range(SectorTickers(groups, sector)) : BatchGotRows(t)}

\* C7: a batch run ends with a non-zero exit and writes no artifact exactly
\* when no sector produced a row; otherwise it writes the artifact with one
\* sheet for each sector that produced a row.
C7_BatchOutcome ==
  batch.runs > 0 =>
    /\ (batch.status # "written") <=> (Produced = {})
    /\ batch.status # "written" => ~artifact.exists
    /\ batch.status = "written" =>
         /\ artifact.exists
         /\ Cardinality(DOMAIN artifact.sheets) = Cardinality(Produced)

\* C8: a table get_sector_data returns has no row with a null date and its
\* rows are in ascending (ticker, date) order.
C8_NoNullDateSorted ==
  Returns =>
    /\ \A i \in DOMAIN run.sector_df.rows : run.sector_df.rows[i].date # NaN
    /\ \A i, j \in DOMAIN run.sector_df.rows :
         i < j =>
           \/ TickerLess(run.sector_df.rows[i], run.sector_df.rows[j])
           \/ /\ run.sector_df.rows[i].ticker = run.sector_df.rows[j].ticker
              /\ run.sector_df.rows[i].date <= run.sector_df.rows[j].date

\* C8 witness: a resolution returned a table of both tickers, in order, from
\* a sheet that lists B before A and holds a row with a null date.
C8_Witness ==
  /\ run.outcome = "computed"
  /\ run.sector \in DOMAIN run.excel_sheets
  /\ \E i \in DOMAIN Contribution : Contribution[i].date = NaN
  /\ Contribution # <<>> /\ Contribution[1].ticker = "B"
  /\ Len(run.sector_df.rows) >= 2
  /\ run.sector_df.rows[1].ticker = "A"

\* C9: for a sector with no registry ticker the resolver does not raise and
\* returns an empty table that has the four canonical columns, and the KPI
\* Enricher returns that table unchanged.
C9_EmptySector ==
  (run.outcome # "none" /\ SectorTickers(groups_df, run.sector) = <<>>) =>
    /\ Returns
    /\ run.sector_df.rows = <<>>
    /\ Canon \subseteq run.sector_df.columns
    /\ run.enriched = run.sector_df

\* C9 witness: a sector without tickers was resolved where no sheet exists
\* for it.
C9_Witness ==
  /\ run.outcome = "computed"
  /\ SectorTickers(groups_df, run.sector) = <<>>
  /\ run.sector \notin DOMAIN run.excel_sheets
  /\ SHEET_NAME_FALLBACK \notin DOMAIN run.excel_sheets

\* C10: after a batch run wrote the artifact and the dashboard loaded it,
\* resolving a sector makes no live call for a ticker the batch run fetched
\* rows for.
C10_HandOff ==
  (/\ batch.status = "written"
   /\ run.outcome \in {"computed", "raised"}
   /\ run.excel_sheets = load_excel_dashboard(artifact)) =>
    \A k \in DOMAIN run.invoked : ~BatchGotRows(run.invoked[k])

====
